---- MODULE Spec2Model ----
(***************************************************************************)
(* Model of hershey_font.py: the .jhf decoder (HersheyGlyphs.load), the    *)
(* encoder (HersheyGlyphs.save), the font union (HersheyGlyphs.__or__) and *)
(* the builder of the encoding tables (make_enc).                          *)
(*                                                                         *)
(* Text is modelled as sequences of character codes, so ord() and chr()    *)
(* are the identity on the code and formatting/parsing are computed digit  *)
(* by digit.  A Python dict whose iteration order matters (glyphs) is a    *)
(* function together with the sequence of its keys in insertion order.     *)
(* An operation that can raise returns a record with an ok flag and the    *)
(* name of the exception.                                                  *)
(***************************************************************************)
EXTENDS Integers, Sequences, FiniteSets, TLC

VARIABLES pc, file, align_left, use_encoding, f1, f2, result, tofile, saved,
          rule, enc, heap, text, glyphs_list

vars == <<pc, file, align_left, use_encoding, f1, f2, result, tofile, saved,
          rule, enc, heap, text, glyphs_list>>

(***************************************************************************)
(* Characters                                                              *)
(***************************************************************************)
OrdR == 82
OrdSpace == 32
OrdNewline == 10
OrdZero == 48
OrdMinus == 45
OrdPlus == 43
MaxChr == 1114111

\* Python's str.strip() removes these from both ends
Whitespace == {9, 10, 11, 12, 13, 28, 29, 30, 31, 32}

\* chr(n) raises ValueError outside range(0x110000)
ChrOk(n) == n >= 0 /\ n <= MaxChr

Max2(a, b) == IF a >= b THEN a ELSE b
Min2(a, b) == IF a <= b THEN a ELSE b

SetMax(S) == CHOOSE m \in S : \A x \in S : x <= m
SetMin(S) == CHOOSE m \in S : \A x \in S : m <= x

\* sorted(S) for a set of integers
RECURSIVE Sorted(_)
Sorted(S) == IF S = {} THEN <<>> ELSE <<SetMin(S)>> \o Sorted(S \ {SetMin(S)})

\* line[a:b] of Python, 0-based, clipped to the length of the line
Slice(s, a, b) == SubSeq(s, a + 1, Min2(b, Len(s)))

RECURSIVE LStrip(_)
LStrip(s) == IF s # <<>> /\ Head(s) \in Whitespace THEN LStrip(Tail(s)) ELSE s

RECURSIVE RStrip(_)
RStrip(s) ==
    IF s # <<>> /\ s[Len(s)] \in Whitespace THEN RStrip(SubSeq(s, 1, Len(s) - 1)) ELSE s

Strip(s) == RStrip(LStrip(s))

IsDigit(c) == c >= OrdZero /\ c <= OrdZero + 9

RECURSIVE DigitsValue(_)
DigitsValue(s) ==
    IF s = <<>> THEN 0 ELSE 10 * DigitsValue(SubSeq(s, 1, Len(s) - 1)) + (s[Len(s)] - OrdZero)

\* int(s) for a stripped string: an optional sign and at least one decimal digit
\* (digit grouping with "_" is not modelled: no modelled text holds one)
ParseInt(s) ==
    LET signed == s # <<>> /\ s[1] \in {OrdMinus, OrdPlus}
        body == IF signed THEN Tail(s) ELSE s
    IN  IF body # <<>> /\ \A i \in 1..Len(body) : IsDigit(body[i])
        THEN [ok |-> TRUE, val |-> IF signed /\ s[1] = OrdMinus
                                   THEN 0 - DigitsValue(body) ELSE DigitsValue(body)]
        ELSE [ok |-> FALSE, val |-> 0]

RECURSIVE Digits(_)
Digits(n) == IF n < 10 THEN <<OrdZero + n>> ELSE Digits(n \div 10) \o <<OrdZero + (n % 10)>>

\* "%<w>d" % n
FormatD(n, w) ==
    LET d == IF n < 0 THEN <<OrdMinus>> \o Digits(0 - n) ELSE Digits(n)
    IN  [i \in 1..(IF Len(d) < w THEN w - Len(d) ELSE 0) |-> OrdSpace] \o d

(***************************************************************************)
(* Data model                                                              *)
(***************************************************************************)
BaselineY == 9
Sentinel == 12345
SentinelOffset == 31
MaxCode == 99999
PointLimit == 1000

EmptyMap == [k \in {} |-> 0]

\* the value None of an attribute that otherwise holds a dict
NoEncoding == [some |-> FALSE, map |-> EmptyMap]
SomeEncoding(m) == [some |-> TRUE, map |-> m]

\* HersheyGlyphs.Glyph.__init__
Glyph(parent, min_x, max_x, path) ==
    [parent |-> parent, min_x |-> min_x, max_x |-> max_x, path |-> path]

\* d[k] = v on a dict
MapPut(d, k, v) == [x \in DOMAIN d \cup {k} |-> IF x = k THEN v ELSE d[x]]

\* s.glyphs[k] = v, where s holds the dict glyphs and the sequence order of
\* its keys in insertion order: a new key goes last, a key already present
\* keeps its place
GlyphsPut(s, k, v) ==
    [s EXCEPT !.glyphs = MapPut(s.glyphs, k, v),
              !.order = IF k \in DOMAIN s.glyphs THEN s.order ELSE Append(s.order, k)]

\* scale = 1 / den
Scale(den) == [num |-> 1, den |-> den]

\* the attributes of a HersheyGlyphs object; id is the object's identity
HersheyGlyphs(id, glyphs, order, encoding, lo, hi, scale) ==
    [id |-> id, glyphs |-> glyphs, order |-> order, baseline_y |-> BaselineY,
     encoding |-> encoding, min |-> lo, max |-> hi, scale |-> scale]

NoFont == HersheyGlyphs(0, EmptyMap, <<>>, NoEncoding, <<0, 0>>, <<0, 0>>, Scale(0))

\* outcome of an operation that returns a HersheyGlyphs object or raises
Returned(v) == [ok |-> TRUE, err |-> "", val |-> v]
Raised(e) == [ok |-> FALSE, err |-> e, val |-> NoFont]
NoResult == Raised("not run")

\* no object has been created
NoHeap == [objs |-> EmptyMap, dicts |-> EmptyMap]

\* The heap holds the objects by reference: objs maps the identity of a
\* HersheyGlyphs object to its slots, where glyphs and encoding are
\* references to dict objects (encoding 0 for None), and dicts maps the
\* reference of a dict object to its items and their insertion order.
GlyphsRef(id) == 2 * id - 1
EncodingRef(id) == 2 * id

\* d[...] = ... on the dict object ref, leaving it with the items map
DictPut(h, ref, map, order) ==
    [h EXCEPT !.dicts = MapPut(h.dicts, ref, [map |-> map, order |-> order])]

\* the slots of the object v, once its dicts lie at gref and eref
Slots(v, gref, eref) ==
    [glyphs |-> gref, encoding |-> IF v.encoding.some THEN eref ELSE 0,
     baseline_y |-> v.baseline_y, min |-> v.min, max |-> v.max, scale |-> v.scale]

\* the heap once load has built the object v
Stored(h, v) ==
    [objs |-> MapPut(h.objs, v.id, Slots(v, GlyphsRef(v.id), EncodingRef(v.id))),
     dicts |-> IF v.encoding.some
               THEN DictPut(DictPut(h, GlyphsRef(v.id), v.glyphs, v.order),
                            EncodingRef(v.id), v.encoding.map, <<>>).dicts
               ELSE DictPut(h, GlyphsRef(v.id), v.glyphs, v.order).dicts]

\* the attributes of the object id as the heap holds them now
Deref(h, id) ==
    [id |-> id,
     glyphs |-> h.dicts[h.objs[id].glyphs].map,
     order |-> h.dicts[h.objs[id].glyphs].order,
     baseline_y |-> h.objs[id].baseline_y,
     encoding |-> IF h.objs[id].encoding = 0 THEN NoEncoding
                  ELSE SomeEncoding(h.dicts[h.objs[id].encoding].map),
     min |-> h.objs[id].min, max |-> h.objs[id].max, scale |-> h.objs[id].scale]

(***************************************************************************)
(* HersheyGlyphs.load                                                      *)
(***************************************************************************)
NoneYet == [some |-> FALSE, v |-> <<>>]
Some(v) == [some |-> TRUE, v |-> v]

Fail(e, s) == [ok |-> FALSE, err |-> e, s |-> s]
Done(s) == [ok |-> TRUE, err |-> "", s |-> s]

\* lines 129-132: the running bounding box takes in one coordinate pair
Accumulate(bb, coords) ==
    [min_x |-> Min2(bb.min_x, coords[1]), max_x |-> Max2(bb.max_x, coords[1]),
     min_y |-> Min2(bb.min_y, coords[2]), max_y |-> Max2(bb.max_y, coords[2])]

\* The while loop of lines 105-144 runs on s, which holds pathsegs, points,
\* x_extents and the running bounding box bb.

\* lines 117-120: pen up
ClosePoints(s) ==
    [s EXCEPT !.pathsegs = IF s.points.some THEN Append(s.pathsegs, s.points.v)
                           ELSE s.pathsegs,
              !.points = NoneYet]

\* lines 124-126
OpenPoints(s) == IF s.points.some THEN s ELSE [s EXCEPT !.points = Some(<<>>)]

\* TakePair with the left extent taken off y as well as x
TakePairBothShifted(s, coords, al) ==
    IF ~s.x_extents.some
    THEN [s EXCEPT !.bb = Accumulate(s.bb, coords), !.x_extents = Some(coords)]
    ELSE [s EXCEPT !.bb = Accumulate(s.bb, coords),
                   !.points = Some(Append(s.points.v,
                                          IF al THEN <<coords[1] - s.x_extents.v[1],
                                                       coords[2] - s.x_extents.v[1]>>
                                          ELSE coords))]

\* lines 127-142: a pair that is not the pen-up marker
TakePair(s, coords, al) ==
    IF ~s.x_extents.some
    THEN [s EXCEPT !.bb = Accumulate(s.bb, coords), !.x_extents = Some(coords)]
    ELSE [s EXCEPT !.bb = Accumulate(s.bb, coords),
                   !.points = Some(Append(s.points.v,
                                          IF al THEN <<coords[1] - s.x_extents.v[1], coords[2]>>
                                          ELSE coords))]

IsPenUp(xc, yc) == xc = OrdSpace /\ yc = OrdR

RECURSIVE PairLoop(_, _, _, _, _)
PairLoop(line, nr_points, al, i, s) ==
    IF i = nr_points
    THEN (IF ~s.x_extents.some THEN Fail("AssertionError", s) ELSE Done(ClosePoints(s)))
    ELSE IF 8 + i * 2 + 2 > Len(line)
    THEN Fail("IndexError", s)
    ELSE IF IsPenUp(line[8 + i * 2 + 1], line[8 + i * 2 + 2])
    THEN (IF ~s.x_extents.some THEN Fail("AssertionError", s)
          ELSE PairLoop(line, nr_points, al, i + 1, OpenPoints(ClosePoints(s))))
    ELSE PairLoop(line, nr_points, al, i + 1,
                  TakePair(OpenPoints(s),
                           <<line[8 + i * 2 + 1] - OrdR, line[8 + i * 2 + 2] - OrdR>>, al))

\* StoreGlyph with the width under align_left taken as left - right
StoreGlyphSwapped(st, glyphnr, al, r, id) ==
    IF ~r.ok THEN Fail(r.err, st)
    ELSE Done(GlyphsPut([st EXCEPT !.bb = r.s.bb], glyphnr,
                        Glyph(id,
                              IF al THEN 0 ELSE r.s.x_extents.v[1],
                              IF al THEN r.s.x_extents.v[1] - r.s.x_extents.v[2]
                              ELSE r.s.x_extents.v[2],
                              r.s.pathsegs)))

\* lines 145-148: the glyph of a decoded line goes into result.glyphs.
\* st holds result.glyphs (with its key order) and the running bounding box.
StoreGlyph(st, glyphnr, al, r, id) ==
    IF ~r.ok THEN Fail(r.err, st)
    ELSE Done(GlyphsPut([st EXCEPT !.bb = r.s.bb], glyphnr,
                        Glyph(id,
                              IF al THEN 0 ELSE r.s.x_extents.v[1],
                              IF al THEN r.s.x_extents.v[2] - r.s.x_extents.v[1]
                              ELSE r.s.x_extents.v[2],
                              r.s.pathsegs)))

\* DecodeLine with the line number of the sentinel rule counted from 0
DecodeLineFromZero(codeField, countField, line, linenr, al, st, id) ==
    IF ~codeField.ok \/ ~countField.ok THEN Fail("ValueError", st)
    ELSE StoreGlyph(st,
                    IF codeField.val = Sentinel THEN linenr - 1 + SentinelOffset
                    ELSE codeField.val,
                    al,
                    PairLoop(line, countField.val, al, 0,
                             [pathsegs |-> <<>>, points |-> NoneYet,
                              x_extents |-> NoneYet, bb |-> st.bb]),
                    id)

\* lines 96-144, given the two header fields as int() returned them
DecodeLine(codeField, countField, line, linenr, al, st, id) ==
    IF ~codeField.ok \/ ~countField.ok THEN Fail("ValueError", st)
    ELSE StoreGlyph(st,
                    IF codeField.val = Sentinel THEN linenr + SentinelOffset
                    ELSE codeField.val,
                    al,
                    PairLoop(line, countField.val, al, 0,
                             [pathsegs |-> <<>>, points |-> NoneYet,
                              x_extents |-> NoneYet, bb |-> st.bb]),
                    id)

\* lines 95-148: one iteration of the loop over the lines of the file
LoadLine(line, linenr, al, st, id) ==
    DecodeLine(ParseInt(Strip(Slice(line, 0, 5))), ParseInt(Strip(Slice(line, 5, 8))),
               line, linenr, al, st, id)

RECURSIVE LoadLines(_, _, _, _, _)
LoadFrom(r, lines, linenr, al, id) ==
    IF r.ok THEN LoadLines(lines, linenr, al, r.s, id) ELSE r

\* lines 93-149: for line in open(filename)
LoadLines(lines, linenr, al, st, id) ==
    IF linenr > Len(lines) THEN Done(st)
    ELSE LoadFrom(LoadLine(lines[linenr], linenr, al, st, id), lines, linenr + 1, al, id)

\* lines 150-166, given the outcome r of the loop over the lines
Finish(r, al, encoding, id) ==
    IF ~r.ok THEN Raised(r.err)
    ELSE IF Max2(r.s.bb.max_x - r.s.bb.min_x, r.s.bb.max_y - r.s.bb.min_y) = 0
    THEN Raised("ZeroDivisionError")
    ELSE Returned(HersheyGlyphs(
             id, r.s.glyphs, r.s.order, encoding,
             IF al THEN <<0, r.s.bb.min_y>> ELSE <<r.s.bb.min_x, r.s.bb.min_y>>,
             IF al THEN <<r.s.bb.max_x - r.s.bb.min_x, r.s.bb.max_y>>
             ELSE <<r.s.bb.max_x, r.s.bb.max_y>>,
             Scale(Max2(r.s.bb.max_x - r.s.bb.min_x, r.s.bb.max_y - r.s.bb.min_y))))

\* lines 80-167.  lines is the content of the file, one string per line;
\* named is what the encodings table holds for the file's basename
\* (NoEncoding when it holds nothing); id is the identity of the new object.
load(lines, al, use_enc, named, id) ==
    Finish(LoadLines(lines, 1, al,
                     [glyphs |-> EmptyMap, order |-> <<>>,
                      bb |-> [min_x |-> 0, max_x |-> 0, min_y |-> 0, max_y |-> 0]], id),
           al, IF use_enc THEN named ELSE NoEncoding, id)

(***************************************************************************)
(* HersheyGlyphs.save                                                      *)
(***************************************************************************)
RECURSIVE SumLen(_)
SumLen(path) == IF path = <<>> THEN 0 ELSE Len(Head(path)) + SumLen(Tail(path))

\* NrPoints without the extents pair
NrPointsNoExtents(glyph) ==
    IF Len(glyph.path) # 0 THEN SumLen(glyph.path) + Len(glyph.path) - 1 ELSE 1

\* NrPoints without the case of a glyph of no segments
NrPointsPerSegment(glyph) == SumLen(glyph.path) + Len(glyph.path)

\* lines 187-191
NrPoints(glyph) ==
    IF Len(glyph.path) # 0 THEN SumLen(glyph.path) + Len(glyph.path) ELSE 1

PenUp == <<OrdSpace, OrdR>>

\* lines 208-216: one point; chr() raises on a code that is no character
PointWrite(p) ==
    [bad |-> ~(ChrOk(p[1] + OrdR) /\ ChrOk(p[2] + OrdR)), s |-> <<p[1] + OrdR, p[2] + OrdR>>]

\* lines 203-218: what the loops over glyph.path hand to tofile.write, one
\* entry per call, in order
RECURSIVE PathWrites(_, _)
PathWrites(path, i) ==
    IF i > Len(path) THEN <<>>
    ELSE (IF i # 1 THEN <<[bad |-> FALSE, s |-> PenUp]>> ELSE <<>>)
         \o [j \in 1..Len(path[i]) |-> PointWrite(path[i][j])]
         \o PathWrites(path, i + 1)

\* the writes made before the first one that raises
FirstBad(ws) == IF \E j \in 1..Len(ws) : ws[j].bad
                THEN SetMin({j \in 1..Len(ws) : ws[j].bad}) ELSE Len(ws) + 1

Written(ws) == [j \in 1..(FirstBad(ws) - 1) |-> ws[j].s]

\* lines 203-219, given the writes of the path
WritePath(out, ws) ==
    IF FirstBad(ws) <= Len(ws) THEN [ok |-> FALSE, err |-> "ValueError", out |-> out \o Written(ws)]
    ELSE [ok |-> TRUE, err |-> "", out |-> (out \o Written(ws)) \o << <<OrdNewline>> >>]

\* WriteGlyph with the point count checked by <= in place of <
WriteGlyphLe(out, code, glyph) ==
    IF ~(NrPoints(glyph) <= PointLimit)
    THEN [ok |-> FALSE, err |-> "AssertionError", out |-> Append(out, FormatD(code, 5))]
    ELSE IF ~(ChrOk(glyph.min_x + OrdR) /\ ChrOk(glyph.max_x + OrdR))
    THEN [ok |-> FALSE, err |-> "ValueError", out |-> Append(out, FormatD(code, 5))]
    ELSE WritePath(out \o <<FormatD(code, 5),
                            FormatD(NrPoints(glyph), 3)
                            \o <<glyph.min_x + OrdR, glyph.max_x + OrdR>>>>,
                   PathWrites(glyph.path, 1))

\* WriteGlyph with the point count checked before the code field is written
WriteGlyphCheckFirst(out, code, glyph) ==
    IF ~(NrPoints(glyph) < PointLimit)
    THEN [ok |-> FALSE, err |-> "AssertionError", out |-> out]
    ELSE IF ~(ChrOk(glyph.min_x + OrdR) /\ ChrOk(glyph.max_x + OrdR))
    THEN [ok |-> FALSE, err |-> "ValueError", out |-> Append(out, FormatD(code, 5))]
    ELSE WritePath(out \o <<FormatD(code, 5),
                            FormatD(NrPoints(glyph), 3)
                            \o <<glyph.min_x + OrdR, glyph.max_x + OrdR>>>>,
                   PathWrites(glyph.path, 1))

\* lines 186-219: the record of one glyph; out is what tofile has been handed
\* so far, one entry per call of tofile.write
WriteGlyph(out, code, glyph) ==
    IF ~(NrPoints(glyph) < PointLimit)
    THEN [ok |-> FALSE, err |-> "AssertionError", out |-> Append(out, FormatD(code, 5))]
    ELSE IF ~(ChrOk(glyph.min_x + OrdR) /\ ChrOk(glyph.max_x + OrdR))
    THEN [ok |-> FALSE, err |-> "ValueError", out |-> Append(out, FormatD(code, 5))]
    ELSE WritePath(out \o <<FormatD(code, 5),
                            FormatD(NrPoints(glyph), 3)
                            \o <<glyph.min_x + OrdR, glyph.max_x + OrdR>>>>,
                   PathWrites(glyph.path, 1))

\* WriteCode with the code checked by < in place of <=
WriteCodeLt(self, use_enc, code, out) ==
    IF ~(code > 0 /\ code < MaxCode)
    THEN [ok |-> FALSE, err |-> "AssertionError", out |-> out]
    ELSE IF ~((IF use_enc THEN self.encoding.map[code] ELSE code) \in DOMAIN self.glyphs)
    THEN [ok |-> FALSE, err |-> "KeyError", out |-> out]
    ELSE WriteGlyph(out, code,
                    self.glyphs[IF use_enc THEN self.encoding.map[code] ELSE code])

\* lines 180-185
WriteCode(self, use_enc, code, out) ==
    IF ~(code > 0 /\ code <= MaxCode)
    THEN [ok |-> FALSE, err |-> "AssertionError", out |-> out]
    ELSE IF ~((IF use_enc THEN self.encoding.map[code] ELSE code) \in DOMAIN self.glyphs)
    THEN [ok |-> FALSE, err |-> "KeyError", out |-> out]
    ELSE WriteGlyph(out, code,
                    self.glyphs[IF use_enc THEN self.encoding.map[code] ELSE code])

RECURSIVE SaveLoop(_, _, _, _, _)
SaveFrom(r, self, use_enc, codes, n) ==
    IF r.ok THEN SaveLoop(self, use_enc, codes, n, r.out) ELSE r

\* lines 179-220: for code in sorted(codes)
SaveLoop(self, use_enc, codes, n, out) ==
    IF n > Len(codes) THEN [ok |-> TRUE, err |-> "", out |-> out]
    ELSE SaveFrom(WriteCode(self, use_enc, codes[n], out), self, use_enc, codes, n + 1)

\* save going over the codes in the order of the dict, not sorted
saveUnsorted(self, use_enc) ==
    SaveLoop(self, self.encoding.some /\ use_enc,
             IF self.encoding.some /\ use_enc THEN Sorted(DOMAIN self.encoding.map)
             ELSE self.order,
             1, <<>>)

\* lines 169-221; the result holds everything written to tofile
save(self, use_enc) ==
    SaveLoop(self, self.encoding.some /\ use_enc,
             Sorted(IF self.encoding.some /\ use_enc THEN DOMAIN self.encoding.map
                    ELSE DOMAIN self.glyphs),
             1, <<>>)

\* the text a writer has received, as the lines a reader of the file gets:
\* each line runs up to and including its newline
RECURSIVE Concat(_)
Concat(chunks) == IF chunks = <<>> THEN <<>> ELSE Head(chunks) \o Concat(Tail(chunks))

RECURSIVE SplitLines(_, _)
SplitLines(chars, cur) ==
    IF chars = <<>> THEN (IF cur = <<>> THEN <<>> ELSE <<cur>>)
    ELSE IF Head(chars) = OrdNewline
         THEN <<Append(cur, OrdNewline)>> \o SplitLines(Tail(chars), <<>>)
         ELSE SplitLines(Tail(chars), Append(cur, Head(chars)))

ReadBack(chunks) == SplitLines(Concat(chunks), <<>>)

(***************************************************************************)
(* HersheyGlyphs.__or__                                                    *)
(***************************************************************************)
\* EncodingStep without the test of line 250
EncodingStepOverwrite(fa, k, code, s) ==
    IF code \in DOMAIN fa.glyphs
    THEN [encoding |-> MapPut(s.encoding, k, s.f2_offset + 1),
          f2_offset |-> s.f2_offset + 1,
          f2_remap |-> MapPut(s.f2_remap, code, s.f2_offset + 1)]
    ELSE [s EXCEPT !.encoding = MapPut(s.encoding, k, code)]

\* lines 250-259: one key k of f2.encoding.  s holds result.encoding,
\* f2_offset and f2_remap.
EncodingStep(fa, k, code, s) ==
    IF k \in DOMAIN s.encoding THEN s
    ELSE IF code \in DOMAIN fa.glyphs
    THEN [encoding |-> MapPut(s.encoding, k, s.f2_offset + 1),
          f2_offset |-> s.f2_offset + 1,
          f2_remap |-> MapPut(s.f2_remap, code, s.f2_offset + 1)]
    ELSE [s EXCEPT !.encoding = MapPut(s.encoding, k, code)]

\* lines 249-260: for k in sorted(f2.encoding)
RECURSIVE EncodingLoop(_, _, _, _, _)
EncodingLoop(fa, fb, keys, n, s) ==
    IF n > Len(keys) THEN s
    ELSE EncodingLoop(fa, fb, keys, n + 1,
                      EncodingStep(fa, keys[n], fb.encoding.map[keys[n]], s))

\* lines 265-270: the code under which f2's glyph k is stored
NewCode(k, remapped, f2_remap, f2_offset) ==
    IF remapped THEN (IF k \in DOMAIN f2_remap THEN f2_remap[k] ELSE k)
    ELSE f2_offset + 1

\* lines 264-271: one glyph of f2.  s holds result.glyphs (with its key
\* order) and f2_offset.
GlyphStep(fb, remapped, f2_remap, id, k, s) ==
    GlyphsPut([s EXCEPT !.f2_offset = IF remapped THEN s.f2_offset ELSE s.f2_offset + 1],
              NewCode(k, remapped, f2_remap, s.f2_offset),
              Glyph(id, fb.glyphs[k].min_x, fb.glyphs[k].max_x, fb.glyphs[k].path))

\* lines 263-272: for k in f2.glyphs, in the dict's iteration order
RECURSIVE GlyphLoop(_, _, _, _, _, _)
GlyphLoop(fb, remapped, f2_remap, id, n, s) ==
    IF n > Len(fb.order) THEN s
    ELSE GlyphLoop(fb, remapped, f2_remap, id, n + 1,
                   GlyphStep(fb, remapped, f2_remap, id, fb.order[n], s))

\* lines 273-279, given the merged encoding e and the merged glyphs g
Merged(fa, fb, id, e, g) ==
    IF Max2(Max2(fa.max[1], fb.max[1]) - Min2(fa.min[1], fb.min[1]),
            Max2(fa.max[2], fb.max[2]) - Min2(fa.min[2], fb.min[2])) = 0
    THEN Raised("ZeroDivisionError")
    ELSE Returned([id |-> id, glyphs |-> g.glyphs, order |-> g.order,
                   baseline_y |-> fa.baseline_y,
                   encoding |-> IF fa.encoding.some THEN SomeEncoding(e.encoding)
                                ELSE NoEncoding,
                   min |-> <<Min2(fa.min[1], fb.min[1]), Min2(fa.min[2], fb.min[2])>>,
                   max |-> <<Max2(fa.max[1], fb.max[1]), Max2(fa.max[2], fb.max[2])>>,
                   scale |-> Scale(Max2(Max2(fa.max[1], fb.max[1]) - Min2(fa.min[1], fb.min[1]),
                                        Max2(fa.max[2], fb.max[2]) - Min2(fa.min[2], fb.min[2])))])

\* lines 262-272, given the outcome e of lines 242-261
MergeGlyphs(fa, fb, id, e) ==
    Merged(fa, fb, id, e,
           GlyphLoop(fb, fa.encoding.some, e.f2_remap, id, 1,
                     [glyphs |-> fa.glyphs, order |-> fa.order, f2_offset |-> e.f2_offset]))

\* or with the check of line 241 made in one direction only
orOneWay(fa, fb, id) ==
    IF fa.encoding.some /\ ~fb.encoding.some THEN Raised("AssertionError")
    ELSE IF DOMAIN fa.glyphs = {} THEN Raised("ValueError")
    ELSE MergeGlyphs(fa, fb, id,
                     IF ~fa.encoding.some
                     THEN [encoding |-> EmptyMap, f2_offset |-> SetMax(DOMAIN fa.glyphs),
                           f2_remap |-> EmptyMap]
                     ELSE EncodingLoop(fa, fb, Sorted(DOMAIN fb.encoding.map), 1,
                                       [encoding |-> fa.encoding.map,
                                        f2_offset |-> SetMax(DOMAIN fa.glyphs),
                                        f2_remap |-> EmptyMap]))

\* lines 238-280: fa | fb; id is the identity of the new object
or(fa, fb, id) ==
    IF fa.encoding.some # fb.encoding.some THEN Raised("AssertionError")
    ELSE IF DOMAIN fa.glyphs = {} THEN Raised("ValueError")
    ELSE MergeGlyphs(fa, fb, id,
                     IF ~fa.encoding.some
                     THEN [encoding |-> EmptyMap, f2_offset |-> SetMax(DOMAIN fa.glyphs),
                           f2_remap |-> EmptyMap]
                     ELSE EncodingLoop(fa, fb, Sorted(DOMAIN fb.encoding.map), 1,
                                       [encoding |-> fa.encoding.map,
                                        f2_offset |-> SetMax(DOMAIN fa.glyphs),
                                        f2_remap |-> EmptyMap]))

\* lines 242-261: result.encoding, f2_offset and f2_remap after the encoding
\* pass
Encoded(fa, fb) ==
    IF ~fa.encoding.some
    THEN [encoding |-> EmptyMap, f2_offset |-> SetMax(DOMAIN fa.glyphs),
          f2_remap |-> EmptyMap]
    ELSE EncodingLoop(fa, fb, Sorted(DOMAIN fb.encoding.map), 1,
                      [encoding |-> fa.encoding.map,
                       f2_offset |-> SetMax(DOMAIN fa.glyphs),
                       f2_remap |-> EmptyMap])

\* dict(d) with d the dict object src, as result.encoding = f1.encoding and
\* result.glyphs = f1.glyphs would have it: the same object
dictAlias(src, new) == src

\* dict(d) (lines 247, 262) with d the dict object src: the new dict object
\* new, which starts with the items of d
dict(src, new) == new

\* lines 247-260: the writes to result.encoding
WithEncoding(h, fa, id, e) ==
    IF fa.encoding.some
    THEN DictPut(h, dict(h.objs[fa.id].encoding, EncodingRef(id)), e.encoding, <<>>)
    ELSE h

\* lines 262-272: the writes to result.glyphs
WithGlyphs(h, fa, id, g) ==
    DictPut(h, dict(h.objs[fa.id].glyphs, GlyphsRef(id)), g.glyphs, g.order)

\* lines 240-279: the slots of result; a result that is not returned is
\* not reachable
WithResult(h, fa, id, r) ==
    IF r.ok
    THEN [h EXCEPT !.objs =
              MapPut(h.objs, id,
                     Slots(r.val, dict(h.objs[fa.id].glyphs, GlyphsRef(id)),
                           dict(h.objs[fa.id].encoding, EncodingRef(id))))]
    ELSE h

\* the heap after lines 242-279, given the outcome e of lines 242-261
orHeapFrom(h, fa, fb, id, e) ==
    WithResult(WithGlyphs(WithEncoding(h, fa, id, e), fa, id,
                          GlyphLoop(fb, fa.encoding.some, e.f2_remap, id, 1,
                                    [glyphs |-> fa.glyphs, order |-> fa.order,
                                     f2_offset |-> e.f2_offset])),
               fa, id, MergeGlyphs(fa, fb, id, e))

\* lines 238-280: the heap after fa | fb, whether it returns or raises
orHeap(h, fa, fb, id) ==
    IF fa.encoding.some # fb.encoding.some THEN h
    ELSE IF DOMAIN fa.glyphs = {} THEN h
    ELSE orHeapFrom(h, fa, fb, id, Encoded(fa, fb))

(***************************************************************************)
(* make_enc                                                                *)
(***************************************************************************)
\* A character is its code point: ord and chr are the identity on it.

\* lines 285-302
syms1 ==
    (92 :> 804 @@ 95 :> 999 @@ 91 :> 2223 @@ 93 :> 2224 @@ 123 :> 2225
     @@ 125 :> 2226 @@ 124 :> 2229 @@ 60 :> 2241 @@ 62 :> 2242 @@ 126 :> 2246
     @@ 8593 :> 2262 @@ 94 :> 2262 @@ 37 :> 2271 @@ 64 :> 2273 @@ 35 :> 2275)

\* lines 303-325
syms2 ==
    (46 :> 3710 @@ 44 :> 3711 @@ 58 :> 3712 @@ 59 :> 3713 @@ 33 :> 3714
     @@ 63 :> 3715 @@ 8216 :> 3716 @@ 8217 :> 3717 @@ 38 :> 3718 @@ 36 :> 3719
     @@ 47 :> 3720 @@ 40 :> 3721 @@ 41 :> 3722 @@ 42 :> 3723 @@ 45 :> 3724
     @@ 43 :> 3725 @@ 61 :> 3726 @@ 34 :> 3728 @@ 176 :> 3729)

Sym2Base == 3710
PrivateUse == 57344
OrdA == 65
OrdLowerA == 97

\* the arguments of make_enc (line 480); an argument left at None is NoneYet.
\* extra is the dict from characters to codes; each of the three redirects
\* is the sequence of the items (k, r[k]) of the dict, in its order.
Rule(preset, uc, lc, digits, space, sym1_except, sym2, sym2_except, nr_letters, extra, redirect, redirect2, redirect3) ==
    [preset |-> preset, uc |-> uc, lc |-> lc, digits |-> digits, space |-> space,
     sym1_except |-> sym1_except, sym2 |-> sym2, sym2_except |-> sym2_except,
     nr_letters |-> nr_letters, extra |-> extra,
     redirects |-> <<redirect, redirect2, redirect3>>]

\* make_enc has not been called
NoRule ==
    Rule("none", NoneYet, NoneYet, NoneYet, NoneYet, NoneYet, Sym2Base, NoneYet, 26,
         NoneYet, NoneYet, NoneYet, NoneYet)

\* lines 496-528: what the presets "rowmans" and "greekc" assign to the
\* arguments, the caller's extra included
Preset(r) ==
    IF r.preset = "rowmans"
    THEN [r EXCEPT !.digits = Some(700),
                   !.sym1_except = Some({35, 124}),
                   !.sym2 = 710,
                   !.sym2_except = Some({8216, 8217, 38, 42, 34, 176}),
                   !.extra = Some(34 :> 717 @@ 176 :> 718 @@ 124 :> 723 @@ 8216 :> 730
                                  @@ 8217 :> 731 @@ 35 :> 733 @@ 38 :> 734 @@ 42 :> 2219)]
    ELSE IF r.preset = "greekc"
    THEN [r EXCEPT !.digits = Some(2200),
                   !.sym2 = 2210,
                   !.sym2_except = Some({8216, 8217, 38, 36, 42, 45, 43, 61, 34, 176}),
                   !.extra = Some(8216 :> 2252 @@ 8217 :> 2251 @@ 38 :> 2272 @@ 36 :> 2274
                                  @@ 42 :> 2219 @@ 45 :> 2231 @@ 43 :> 2232 @@ 61 :> 2238
                                  @@ 176 :> 2218)]
    ELSE r

\* d without the keys of except, when except is not None
Without(d, except) ==
    [k \in {x \in DOMAIN d : ~except.some \/ x \notin except.v} |-> d[k]]

\* lines 529-533
Syms1Part(r) == Without(syms1, r.sym1_except)

\* lines 534-538
Syms2Part(r) ==
    [k \in DOMAIN Without(syms2, r.sym2_except) |-> syms2[k] - Sym2Base + r.sym2]

\* lines 539-542: when a key is written as a capital and as a small letter,
\* the capital is written later
LettersPart(r) ==
    [c \in {OrdA + i : i \in 0..(r.nr_letters - 1)}
           \cup {OrdLowerA + i : i \in 0..(r.nr_letters - 1)} |->
        IF c - OrdA \in 0..(r.nr_letters - 1) THEN c - OrdA + r.uc.v
        ELSE c - OrdLowerA + r.lc.v]

\* lines 543-546
SpacePart(r) == OrdSpace :> (IF r.space.some THEN r.space.v ELSE r.digits.v - 1)

\* lines 547-549
DigitsPart(r) == [c \in OrdZero..(OrdZero + 9) |-> r.digits.v + (c - OrdZero)]

\* the outcome of make_enc: the dict, or the exception
Table(d) == [ok |-> TRUE, err |-> "", enc |-> d]
NoTable(e) == [ok |-> FALSE, err |-> e, enc |-> EmptyMap]

\* lines 484-550, on the arguments as the presets have set them.  A later
\* assignment to a key replaces an earlier one.
BaseTable(r) ==
    IF r.preset = "ascii" THEN Table([k \in 32..127 |-> k])
    ELSE IF r.preset = "private_use"
    THEN (IF ~r.extra.some THEN NoTable("AttributeError")
          ELSE Table([k \in {PrivateUse + c - 32 :
                                c \in (32..127) \ {r.extra.v[x] : x \in DOMAIN r.extra.v}} |->
                         k - PrivateUse + 32]))
    ELSE IF (r.nr_letters > 0 /\ (~r.uc.some \/ ~r.lc.some)) \/ ~r.digits.some
    THEN NoTable("TypeError")
    ELSE Table(DigitsPart(r) @@ SpacePart(r) @@ LettersPart(r)
               @@ Syms2Part(r) @@ Syms1Part(r))

\* lines 551-555
WithExtra(t, r) ==
    IF ~t.ok \/ ~r.extra.some THEN t ELSE Table(r.extra.v @@ t.enc)

\* lines 558-563: the items of one redirect from item i on
RECURSIVE Move(_, _, _)
Move(t, items, i) ==
    IF ~t.ok \/ i > Len(items) THEN t
    ELSE IF items[i][1] \notin DOMAIN t.enc THEN NoTable("KeyError")
    ELSE Move(IF items[i][2].some
              THEN Table(MapPut(t.enc, items[i][2].v, t.enc[items[i][1]]))
              ELSE t,
              items, i + 1)

\* Delete that leaves in the table the keys that are redirected to nothing
DeleteMoved(t, items) ==
    IF ~t.ok THEN t
    ELSE Table([k \in DOMAIN t.enc
                      \ {items[i][1] : i \in {j \in 1..Len(items) : items[j][2].some}} |->
                   t.enc[k]])

\* lines 564-566
Delete(t, items) ==
    IF ~t.ok THEN t
    ELSE Table([k \in DOMAIN t.enc \ {items[i][1] : i \in 1..Len(items)} |-> t.enc[k]])

\* lines 557-567: one of redirect, redirect2, redirect3
Redirect(t, red) ==
    IF ~t.ok \/ ~red.some THEN t ELSE Delete(Move(t, red.v, 1), red.v)

\* make_enc with the extra overrides applied before the symbol and letter
\* tables are filled in
make_encExtraFirst(r) ==
    IF ~BaseTable(Preset(r)).ok THEN BaseTable(Preset(r))
    ELSE Redirect(Redirect(Redirect(
             Table(BaseTable(Preset(r)).enc
                   @@ (IF Preset(r).extra.some THEN Preset(r).extra.v ELSE EmptyMap)),
             r.redirects[1]), r.redirects[2]), r.redirects[3])

\* lines 480-571
make_enc(r) ==
    Redirect(Redirect(Redirect(WithExtra(BaseTable(Preset(r)), Preset(r)),
                               r.redirects[1]), r.redirects[2]), r.redirects[3])

(***************************************************************************)
(* make and its callbacks                                                  *)
(***************************************************************************)
\* lines 1173-1175: the use_encoding that the callbacks of make see
make_use_encoding(glyphs, use_enc) == use_enc /\ glyphs.encoding.some

\* lines 1124-1137: the glyph code that the callback returns
unicode_to_glyph(glyphs, use_enc, unicode) ==
    IF use_enc
    THEN (IF unicode \in DOMAIN glyphs.encoding.map THEN glyphs.encoding.map[unicode] ELSE 0)
    ELSE (IF unicode \in DOMAIN glyphs.glyphs THEN unicode ELSE 0)

\* outcome of text_to_glyphs: the list of qahirah.Glyph(index, pos) entries
\* that it returns, pos.x being a fraction and pos.y being 0
NoList == [ok |-> FALSE, err |-> "not run", list |-> <<>>]

\* line 1150: Glyph(code, Vector(xpos - glyphs[code].min_x, 0) * glyphs.scale)
Placed(glyphs, code, xpos) ==
    [index |-> code,
     pos |-> [num |-> (xpos - glyphs.glyphs[code].min_x) * glyphs.scale.num,
              den |-> glyphs.scale.den]]

\* lines 1148-1153: the characters of txt from the i-th on
RECURSIVE TextLoop(_, _, _, _, _, _)
PlaceGlyph(glyphs, use_enc, txt, i, xpos, list, code) ==
    IF code \notin DOMAIN glyphs.glyphs
    THEN [ok |-> FALSE, err |-> "KeyError", list |-> <<>>]
    ELSE TextLoop(glyphs, use_enc, txt, i + 1,
                  xpos + glyphs.glyphs[code].max_x - glyphs.glyphs[code].min_x,
                  Append(list, Placed(glyphs, code, xpos)))

TextLoop(glyphs, use_enc, txt, i, xpos, list) ==
    IF i > Len(txt) THEN [ok |-> TRUE, err |-> "", list |-> list]
    ELSE PlaceGlyph(glyphs, use_enc, txt, i, xpos, list,
                    unicode_to_glyph(glyphs, use_enc, txt[i]))

\* lines 1139-1163
text_to_glyphs(glyphs, use_enc, txt) == TextLoop(glyphs, use_enc, txt, 1, 0, <<>>)

(***************************************************************************)
(* Inputs of the decoder                                                   *)
(***************************************************************************)
MaxPairs == 2
MaxLines == 2

\* " R" (pen up), "RR" = (0, 0), "PU" = (-2, 3), "SQ" = (1, -1)
Pairs == {<<32, 82>>, <<82, 82>>, <<80, 85>>, <<83, 81>>}

PairSeqs == UNION {[1..n -> Pairs] : n \in 0..MaxPairs}

RECURSIVE Flatten(_)
Flatten(ps) == IF ps = <<>> THEN <<>> ELSE Head(ps) \o Flatten(Tail(ps))

\* a line of a .jhf file: the two header fields, the pairs, whatever else
\* precedes the line terminator, and the terminator
Line(code, n, ps, rest) ==
    FormatD(code, 5) \o FormatD(n, 3) \o Flatten(ps) \o rest \o <<OrdNewline>>

LoadCodes == {1, 32, Sentinel}

\* every header with every run of pairs: the count may disagree with the
\* pairs present, and a lone character may follow the last pair
Lines ==
    {Line(c, n, ps, rest) : c \in LoadCodes, n \in 0..(MaxPairs + 1),
                            ps \in PairSeqs, rest \in {<<>>, <<83>>}}

\* the lines that surround the line under study in a longer file
MoreLines ==
    {Line(2, 2, <<(<<82, 82>>), (<<83, 81>>)>>, <<>>),
     Line(Sentinel, 2, <<(<<83, 81>>), (<<80, 85>>)>>, <<>>)}

Surroundings ==
    {ab \in (UNION {[1..n -> MoreLines] : n \in 0..(MaxLines - 1)})
            \X (UNION {[1..n -> MoreLines] : n \in 0..(MaxLines - 1)}) :
        Len(ab[1]) + Len(ab[2]) <= MaxLines - 1}

LoadFiles == {ab[1] \o <<l>> \o ab[2] : l \in Lines, ab \in Surroundings}

(***************************************************************************)
(* The decoder under every input file                                      *)
(***************************************************************************)
Idle ==
    /\ file = <<>>
    /\ align_left = FALSE
    /\ use_encoding = FALSE
    /\ f1 = NoFont
    /\ f2 = NoFont
    /\ result = NoResult
    /\ tofile = <<>>
    /\ saved = [ok |-> FALSE, err |-> "not run"]
    /\ rule = NoRule
    /\ enc = NoTable("not run")
    /\ heap = NoHeap
    /\ text = <<>>
    /\ glyphs_list = NoList

InitLoad == pc = "start" /\ Idle

Load ==
    /\ pc = "start"
    /\ \E lines \in LoadFiles, al \in BOOLEAN :
          /\ file' = lines
          /\ align_left' = al
          /\ result' = load(lines, al, FALSE, NoEncoding, 1)
    /\ pc' = "loaded"
    /\ UNCHANGED <<use_encoding, f1, f2, tofile, saved, rule, enc, heap, text, glyphs_list>>

\* save, by native codes, of the font that load returned
Resave ==
    /\ pc = "loaded"
    /\ result.ok
    /\ use_encoding' = FALSE
    /\ tofile' = save(result.val, FALSE).out
    /\ saved' = [ok |-> save(result.val, FALSE).ok, err |-> save(result.val, FALSE).err]
    /\ pc' = "resaved"
    /\ UNCHANGED <<file, align_left, f1, f2, result, rule, enc, heap, text, glyphs_list>>

NextLoad == Load \/ Resave

SpecLoad == InitLoad /\ [][NextLoad]_vars

(***************************************************************************)
(* Inputs of make_enc                                                      *)
(***************************************************************************)
MaxRedirects == 2

\* the arguments for the letters, digits, space and symbols: the defaults,
\* those of "gothgbt", "rowmand" and "greeks" (lines 626, 978, 643-650), and
\* one with a space and with exceptions
RuleBases ==
    {NoRule,
     Rule("none", Some(3501), Some(3601), Some(3700), NoneYet, NoneYet, Sym2Base, NoneYet,
          26, NoneYet, NoneYet, NoneYet, NoneYet),
     Rule("none", Some(2501), Some(2601), Some(2700), NoneYet, NoneYet, 2710, NoneYet,
          26, NoneYet, NoneYet, NoneYet, NoneYet),
     Rule("none", Some(527), Some(627), NoneYet, NoneYet, NoneYet, Sym2Base, NoneYet,
          24, NoneYet, NoneYet, NoneYet, NoneYet),
     Rule("none", Some(501), Some(601), Some(700), Some(32), Some({35, 64}), 710,
          Some({46}), 26, NoneYet, NoneYet, NoneYet, NoneYet)}

Presets == {"none", "ascii", "private_use", "rowmans", "greekc"}

\* no extra; "A"; "#", " ", "0" and "."; greek_extra (lines 471-477)
Extras ==
    {NoneYet,
     Some(65 :> 900),
     Some(35 :> 901 @@ 32 :> 902 @@ 48 :> 903 @@ 46 :> 904),
     Some(183 :> 74 @@ 176 :> 86 @@ 215 :> 106 @@ 247 :> 118)}

\* "A" to "B", "B" to "A", "A" to nothing, "#" to an arrow, "0" to "#"
RedirectItems ==
    {<<65, Some(66)>>, <<66, Some(65)>>, <<65, NoneYet>>, <<35, Some(8593)>>,
     <<48, Some(35)>>}

\* the items of a dict: no key twice
Redirects ==
    {NoneYet}
    \cup {Some(items) : items \in
             {x \in UNION {[1..n -> RedirectItems] : n \in 1..MaxRedirects} :
                 \A i, j \in 1..Len(x) : x[i][1] = x[j][1] => i = j}}

\* fix_tilde (line 478)
SecondRedirects == {NoneYet, Some(<< <<127, Some(126)>> >>)}
ThirdRedirects == {NoneYet, Some(<< <<66, Some(65)>> >>)}

(***************************************************************************)
(* make_enc under every rule                                               *)
(***************************************************************************)
InitEnc == pc = "start" /\ Idle

MakeEnc ==
    /\ pc = "start"
    /\ \E b \in RuleBases, p \in Presets, e \in Extras, r1 \in Redirects,
          r2 \in SecondRedirects, r3 \in ThirdRedirects :
          /\ rule' = [b EXCEPT !.preset = p, !.extra = e, !.redirects = <<r1, r2, r3>>]
          /\ enc' = make_enc([b EXCEPT !.preset = p, !.extra = e,
                                       !.redirects = <<r1, r2, r3>>])
    /\ pc' = "made"
    /\ UNCHANGED <<file, align_left, use_encoding, f1, f2, result, tofile, saved, heap, text, glyphs_list>>

NextEnc == MakeEnc

SpecEnc == InitEnc /\ [][NextEnc]_vars

(***************************************************************************)
(* Inputs of the encoder                                                   *)
(***************************************************************************)
MaxSegs == 2
MaxReadBack == 40

\* an ordinary point and the point whose two characters are " R"
SavePoints == {<<1, -1>>, <<-50, 0>>}

Segments == {<<>>} \cup {<<p>> : p \in SavePoints} \cup {<<p, q>> : p, q \in SavePoints}

Paths == UNION {[1..n -> Segments] : n \in 0..MaxSegs}

SaveExtents == {<<0, 0>>, <<0, 5>>, <<-2, 3>>, <<-50, 0>>}

\* glyphs at the limits of the fields: point counts PointLimit - 1 and
\* PointLimit, and coordinates that are no character
LimitGlyphs ==
    {Glyph(1, 0, 5, <<[i \in 1..n |-> <<0, 0>>]>>) : n \in {PointLimit - 2, PointLimit - 1}}
    \cup {Glyph(1, -83, 5, <<>>), Glyph(1, 0, 5, << <<(<<1, -1>>), (<<-83, 0>>)>> >>)}

SaveGlyphs == {Glyph(1, e[1], e[2], path) : e \in SaveExtents, path \in Paths} \cup LimitGlyphs

Dot == Glyph(1, 0, 5, << <<(<<1, -1>>)>> >>)
Blank == Glyph(1, 0, 5, <<>>)

SaveCodes == {0, 1, 2, Sentinel, MaxCode, MaxCode + 1}

\* a HersheyGlyphs object as handed to save, which reads glyphs and encoding
GlyphSet(glyphs, order, encoding) ==
    HersheyGlyphs(1, glyphs, order, encoding, <<-50, -1>>, <<5, 0>>, Scale(55))

\* one glyph of any shape under any code, alone or beside a dot
PlainInputs ==
    {GlyphSet(c :> g, <<c>>, NoEncoding) : c \in SaveCodes, g \in SaveGlyphs}
    \cup {GlyphSet(cd[1] :> g @@ cd[2] :> Dot, <<cd[1], cd[2]>>, NoEncoding) :
              cd \in {x \in SaveCodes \X SaveCodes : x[1] # x[2]}, g \in SaveGlyphs}

EncodingKeys == {0, 65, 66, MaxCode + 1}

\* small glyphs under the codes 1 and 2, with an encoding of one or two keys
\* whose values are 1, 2 or 3
EncodedInputs ==
    {GlyphSet(gs, Sorted(DOMAIN gs), SomeEncoding(m)) :
        gs \in UNION {[cs -> {Dot, Blank}] : cs \in {{1}, {2}, {1, 2}}},
        m \in UNION {[ks -> {1, 2, 3}] :
                        ks \in {x \in SUBSET EncodingKeys : Cardinality(x) \in {1, 2}}}}

SaveInputs == PlainInputs \cup EncodedInputs

(***************************************************************************)
(* The encoder under every input, and the decoder on what it wrote         *)
(***************************************************************************)
InitSave ==
    /\ pc = "start"
    /\ f1 \in SaveInputs
    /\ file = <<>>
    /\ align_left = FALSE
    /\ use_encoding = FALSE
    /\ f2 = NoFont
    /\ result = NoResult
    /\ tofile = <<>>
    /\ saved = [ok |-> FALSE, err |-> "not run"]
    /\ rule = NoRule
    /\ enc = NoTable("not run")
    /\ heap = NoHeap
    /\ text = <<>>
    /\ glyphs_list = NoList

Save ==
    /\ pc = "start"
    /\ \E ue \in BOOLEAN :
          /\ use_encoding' = ue
          /\ tofile' = save(f1, ue).out
          /\ saved' = [ok |-> save(f1, ue).ok, err |-> save(f1, ue).err]
    /\ pc' = "saved"
    /\ UNCHANGED <<file, align_left, f1, f2, result, rule, enc, heap, text, glyphs_list>>

\* load on the file that save wrote
Reload ==
    /\ pc = "saved"
    /\ saved.ok
    /\ Len(tofile) <= MaxReadBack
    /\ \E al \in BOOLEAN :
          /\ align_left' = al
          /\ file' = ReadBack(tofile)
          /\ result' = load(ReadBack(tofile), al, FALSE, NoEncoding, 2)
    /\ pc' = "reloaded"
    /\ UNCHANGED <<use_encoding, f1, f2, tofile, saved, rule, enc, heap, text, glyphs_list>>

NextSave == Save \/ Reload

SpecSave == InitSave /\ [][NextSave]_vars

(***************************************************************************)
(* Inputs of the union                                                     *)
(***************************************************************************)
MaxUnions == 2

UnionCodes == {1, 2, 3}
UnionKeys == {65, 66}

\* the line of a glyph that shows where it comes from: its extents are
\* (0, c) and its one point is (c, tag)
TagLine(c, tag) == Line(c, 2, << <<OrdR, OrdR + c>>, <<OrdR + c, OrdR + tag>> >>, <<>>)

\* the font that load returns for a file with one such line per code of
\* order, when the encodings table holds encoding for the file's name
FontOf(order, tag, encoding, id) ==
    load([i \in 1..Len(order) |-> TagLine(order[i], tag)], FALSE, TRUE, encoding, id).val

\* one or two codes, in either order of appearance in the file
Orders == {<<c>> : c \in UnionCodes}
          \cup {<<cd[1], cd[2]>> : cd \in {x \in UnionCodes \X UnionCodes : x[1] # x[2]}}

Range(order) == {order[i] : i \in 1..Len(order)}

\* no encoding, or one over one or two keys whose every value is 0 or a
\* glyph of the font
EncodingsFor(codes) ==
    {NoEncoding}
    \cup {SomeEncoding(m) : m \in UNION {[ks -> codes \cup {0}] : ks \in (SUBSET UnionKeys) \ {{}}}}

Fonts(tag, id) ==
    UNION {{FontOf(order, tag, e, id) : e \in EncodingsFor(Range(order))} : order \in Orders}

\* the fonts that later unions add
LaterFonts ==
    {FontOf(<<2, 1>>, 3, NoEncoding, 9),
     FontOf(<<2, 1>>, 3, SomeEncoding(65 :> 1 @@ 67 :> 1 @@ 68 :> 2), 9)}

(***************************************************************************)
(* The union of every two fonts, and of its result with further fonts      *)
(***************************************************************************)
InitUnion ==
    /\ pc = "start"
    /\ f1 \in Fonts(1, 1)
    /\ f2 \in Fonts(2, 2)
    /\ file = <<>>
    /\ align_left = FALSE
    /\ use_encoding = FALSE
    /\ result = NoResult
    /\ tofile = <<>>
    /\ saved = [ok |-> FALSE, err |-> "not run"]
    /\ rule = NoRule
    /\ enc = NoTable("not run")
    /\ heap = Stored(Stored(NoHeap, f1), f2)
    /\ text = <<>>
    /\ glyphs_list = NoList

\* result = f1 | f2
Union ==
    /\ pc = "start"
    /\ result' = or(f1, f2, 3)
    /\ heap' = orHeap(heap, f1, f2, 3)
    /\ pc' = "merged"
    /\ UNCHANGED <<file, align_left, use_encoding, f1, f2, tofile, saved, rule, enc, text, glyphs_list>>

\* merged |= g, as in the loop of make (lines 1167-1170)
UnionMore ==
    /\ pc = "merged"
    /\ result.ok
    /\ result.val.id < 2 + MaxUnions
    /\ \E g \in LaterFonts :
          /\ f1' = result.val
          /\ f2' = g
          /\ result' = or(result.val, g, result.val.id + 1)
          /\ heap' = orHeap(Stored(heap, g), result.val, g, result.val.id + 1)
    /\ UNCHANGED <<pc, file, align_left, use_encoding, tofile, saved, rule, enc, text, glyphs_list>>

\* the merged font saved
SaveMerged ==
    /\ pc = "merged"
    /\ result.ok
    /\ \E ue \in BOOLEAN :
          /\ use_encoding' = ue
          /\ tofile' = save(result.val, ue).out
          /\ saved' = [ok |-> save(result.val, ue).ok, err |-> save(result.val, ue).err]
    /\ pc' = "saved"
    /\ UNCHANGED <<file, align_left, f1, f2, result, rule, enc, heap, text, glyphs_list>>

NextUnion == Union \/ UnionMore \/ SaveMerged

SpecUnion == InitUnion /\ [][NextUnion]_vars

(***************************************************************************)
(* Inputs of make                                                          *)
(***************************************************************************)
MaxText == 2

TextCodes == {0, 1, 65, 66}

\* the line of a glyph with the extents (-(c % 3), 3) and the point (1, -1)
GlyphLine(c) == Line(c, 2, << <<OrdR - (c % 3), OrdR + 3>>, <<83, 81>> >>, <<>>)

\* no encoding, or one over "A" and "B" with the values 0, 1 and 2
TextEncodings ==
    {NoEncoding}
    \cup {SomeEncoding(m) : m \in UNION {[ks -> {0, 1, 2}] : ks \in (SUBSET {65, 66}) \ {{}}}}

\* the fonts that load returns for the files of such lines
TextFonts ==
    {load([i \in 1..Cardinality(cs) |-> GlyphLine(Sorted(cs)[i])], al, TRUE, e, 1).val :
        cs \in (SUBSET TextCodes) \ {{}}, al \in BOOLEAN, e \in TextEncodings}

\* "A", "B" and "C"
Texts == UNION {[1..n -> {65, 66, 67}] : n \in 0..MaxText}

(***************************************************************************)
(* make on every font, and text_to_glyphs on every text                    *)
(***************************************************************************)
InitText ==
    /\ pc = "start"
    /\ f1 \in TextFonts
    /\ file = <<>>
    /\ align_left = FALSE
    /\ use_encoding = FALSE
    /\ f2 = NoFont
    /\ result = NoResult
    /\ tofile = <<>>
    /\ saved = [ok |-> FALSE, err |-> "not run"]
    /\ rule = NoRule
    /\ enc = NoTable("not run")
    /\ heap = NoHeap
    /\ text = <<>>
    /\ glyphs_list = NoList

\* the_font = make(f1, use_encoding = ue, kern = True)
Make ==
    /\ pc = "start"
    /\ \E ue \in BOOLEAN : use_encoding' = make_use_encoding(f1, ue)
    /\ pc' = "font"
    /\ UNCHANGED <<file, align_left, f1, f2, result, tofile, saved, rule, enc, heap,
                   text, glyphs_list>>

\* the callback on one text
TextToGlyphs ==
    /\ pc = "font"
    /\ \E txt \in Texts :
          /\ text' = txt
          /\ glyphs_list' = text_to_glyphs(f1, use_encoding, txt)
    /\ pc' = "shaped"
    /\ UNCHANGED <<file, align_left, use_encoding, f1, f2, result, tofile, saved, rule,
                   enc, heap>>

NextText == Make \/ TextToGlyphs

SpecText == InitText /\ [][NextText]_vars

(***************************************************************************)
(* Properties of the decoder                                               *)
(***************************************************************************)
Loaded == pc = "loaded" /\ result.ok

\* the extents pair of a line that has one: the two characters after the header
RawExtents(line) == <<line[9] - OrdR, line[10] - OrdR>>

\* the loop over the lines decoded every record
EveryRecordDecoded == result.err \notin {"ValueError", "IndexError", "AssertionError", "not run"}

PointsOf(glyph) == UNION {{glyph.path[i][j] : j \in 1..Len(glyph.path[i])} : i \in 1..Len(glyph.path)}

\* C5 as stated: every glyph that load produces, from any file that decodes
\* without error and with either value of align_left, has min_x <= max_x.
C5_MinLeMax ==
    Loaded => \A c \in DOMAIN result.val.glyphs :
                  result.val.glyphs[c].min_x <= result.val.glyphs[c].max_x

\* C5 amended: when the extents pair (a, b) of every record of the file has
\* a <= b, every glyph that load produces has min_x <= max_x, with either
\* value of align_left.
C5_MinLeMaxOrderedExtents ==
    (Loaded /\ \A i \in 1..Len(file) : RawExtents(file[i])[1] <= RawExtents(file[i])[2])
    => \A c \in DOMAIN result.val.glyphs :
           result.val.glyphs[c].min_x <= result.val.glyphs[c].max_x

\* a file of two records with ordered extents, not both of width 0, decoded
\* with align_left
C5_Witness ==
    /\ Loaded
    /\ align_left
    /\ Cardinality(DOMAIN result.val.glyphs) = 2
    /\ \A i \in 1..Len(file) : RawExtents(file[i])[1] <= RawExtents(file[i])[2]
    /\ \E c \in DOMAIN result.val.glyphs : result.val.glyphs[c].max_x > 0

\* C6 as stated: for a file of at least one record whose every record
\* decodes, load returns a font whose scale is positive and whose bounding
\* box has max >= min in both coordinates.
C6_ScalePositive ==
    (pc = "loaded" /\ Len(file) >= 1 /\ EveryRecordDecoded)
    => /\ result.ok
       /\ result.val.scale.den > 0
       /\ result.val.max[1] >= result.val.min[1]
       /\ result.val.max[2] >= result.val.min[2]

\* C7 as stated: the bounding box of a loaded font encloses every stored
\* point of every glyph, and its x range encloses every glyph's extents.
C7_BoxEncloses ==
    Loaded =>
        \A c \in DOMAIN result.val.glyphs :
            /\ \A p \in PointsOf(result.val.glyphs[c]) :
                   /\ result.val.min[1] <= p[1] /\ p[1] <= result.val.max[1]
                   /\ result.val.min[2] <= p[2] /\ p[2] <= result.val.max[2]
            /\ result.val.min[1] <= result.val.glyphs[c].min_x
            /\ result.val.glyphs[c].max_x <= result.val.max[1]

\* the two header fields of a line, as load reads them
CodeField(line) == ParseInt(Strip(Slice(line, 0, 5))).val
CountField(line) == ParseInt(Strip(Slice(line, 5, 8))).val

\* the code that the sentinel rule gives line i of the file
KeyOf(i) ==
    IF CodeField(file[i]) = Sentinel THEN i + SentinelOffset ELSE CodeField(file[i])

\* the last line of the file stored under code k: the one whose glyph stays
LastLine(k) == SetMax({i \in 1..Len(file) : KeyOf(i) = k})

\* C11: a record whose code field reads 12345 is stored under its 1-based
\* line number + 31, every other record under the value of its code field:
\* the codes of the loaded font are these, and the glyph under each has the
\* width of the extents of the last record stored under it.
C11_SentinelRule ==
    Loaded =>
        /\ DOMAIN result.val.glyphs = {KeyOf(i) : i \in 1..Len(file)}
        /\ \A k \in DOMAIN result.val.glyphs :
               result.val.glyphs[k].max_x - result.val.glyphs[k].min_x
               = RawExtents(file[LastLine(k)])[2] - RawExtents(file[LastLine(k)])[1]

\* a file whose second line carries the sentinel has been loaded: its
\* glyphs are 1 and 33
C11_Witness ==
    /\ Loaded
    /\ Len(file) = 2
    /\ CodeField(file[1]) = 1
    /\ CodeField(file[2]) = Sentinel
    /\ DOMAIN result.val.glyphs = {1, 2 + SentinelOffset}

\* pair j (from 0) of a line, as characters and as coordinates
RawChars(line, j) == <<line[9 + 2 * j], line[10 + 2 * j]>>
NotPenUp(p) == ~IsPenUp(p[1], p[2])

\* the pairs of a line after the extents pair that are not pen-up markers
DrawnChars(line) ==
    SelectSeq([j \in 1..(CountField(line) - 1) |-> RawChars(line, j)], NotPenUp)

\* the points (x, y) of the line with dx taken off every x
DrawnPoints(line, dx) ==
    [j \in 1..Len(DrawnChars(line)) |->
        <<DrawnChars(line)[j][1] - OrdR - dx, DrawnChars(line)[j][2] - OrdR>>]

\* the glyph holds the extents and the drawn points of the line, raw or
\* shifted by the left extent
Normalized(glyph, line, al) ==
    /\ glyph.min_x = (IF al THEN 0 ELSE RawExtents(line)[1])
    /\ glyph.max_x = (IF al THEN RawExtents(line)[2] - RawExtents(line)[1]
                      ELSE RawExtents(line)[2])
    /\ Flatten(glyph.path) = DrawnPoints(line, IF al THEN RawExtents(line)[1] ELSE 0)

\* the record of the example: code 1, two pairs, "PU" and "SQ"
ExampleLine == Line(1, 2, << <<80, 85>>, <<83, 81>> >>, <<>>)

\* C12: under align_left a record with raw extents (a, b) is stored with
\* min_x = 0 and max_x = b - a and each drawn point (x, y) as (x - a, y);
\* without align_left extents and points are stored raw.  The record
\* "    1  2PUSQ" decodes under align_left to min_x = 0, max_x = 5 and one
\* segment holding the one point (3, -1).
C12_AlignLeft ==
    Loaded =>
        /\ \A k \in DOMAIN result.val.glyphs :
               Normalized(result.val.glyphs[k], file[LastLine(k)], align_left)
        /\ (align_left /\ file = <<ExampleLine>>)
           => /\ DOMAIN result.val.glyphs = {1}
              /\ result.val.glyphs[1].min_x = 0
              /\ result.val.glyphs[1].max_x = 5
              /\ result.val.glyphs[1].path = << << <<3, -1>> >> >>

\* the record of the example has been loaded under align_left
C12_Witness == Loaded /\ align_left /\ file = <<ExampleLine>>

\* C13: every segment of every glyph that load produces holds at least one
\* point; a record whose only pair is the extents pair gives a glyph of
\* zero segments.
C13_NoEmptySegment ==
    Loaded =>
        \A k \in DOMAIN result.val.glyphs :
            /\ \A i \in 1..Len(result.val.glyphs[k].path) :
                   Len(result.val.glyphs[k].path[i]) >= 1
            /\ CountField(file[LastLine(k)]) = 1 => result.val.glyphs[k].path = <<>>

\* the line says N = 0, or has fewer than 2 * N characters between its
\* header and its terminator
Malformed(line) ==
    CountField(line) = 0 \/ Len(line) - 1 - 8 < 2 * CountField(line)

\* C14: load fails, and returns no font, for a file with a record whose
\* point count is 0 or that has fewer than 2 * N coordinate characters
\* after its header, a pair cut after its first character included.
C14_MalformedRejected ==
    (pc = "loaded" /\ \E i \in 1..Len(file) : Malformed(file[i]))
    => ~result.ok /\ result.val = NoFont


\* a record as the format has it: the code, in 1..99999 and not 12345,
\* right-aligned in 5 columns; the count N, in 1..999, right-aligned in 3
\* columns; N pairs, the first of them the extents; the line terminator
WellFormed(line) ==
    /\ Len(line) >= 11
    /\ ParseInt(Strip(Slice(line, 0, 5))).ok
    /\ CodeField(line) \in 1..MaxCode /\ CodeField(line) # Sentinel
    /\ Slice(line, 0, 5) = FormatD(CodeField(line), 5)
    /\ ParseInt(Strip(Slice(line, 5, 8))).ok
    /\ CountField(line) \in 1..(PointLimit - 1)
    /\ Slice(line, 5, 8) = FormatD(CountField(line), 3)
    /\ Len(line) = 8 + 2 * CountField(line) + 1
    /\ line[Len(line)] = OrdNewline
    /\ \A i \in 9..(Len(line) - 1) : line[i] # OrdNewline
    /\ ~IsPenUp(line[9], line[10])

WellFormedFile(lines) ==
    /\ \A i \in 1..Len(lines) : WellFormed(lines[i])
    /\ \A i, j \in 1..Len(lines) : i < j => CodeField(lines[i]) < CodeField(lines[j])

\* C25: a file of well-formed records with ascending codes is loaded with
\* align_left false, and save by native codes of the font loaded writes the
\* text of the file.
C25_TextRoundTrip ==
    (WellFormedFile(file) /\ ~align_left)
    => /\ pc = "loaded" => result.ok
       /\ pc = "resaved" => saved.ok /\ Concat(tofile) = Concat(file)

(***************************************************************************)
(* Properties of the encoder                                               *)
(***************************************************************************)
\* save went over the glyph codes, not over the keys of the encoding
NativeSave == ~(use_encoding /\ f1.encoding.some)

WrittenCodes == IF NativeSave THEN DOMAIN f1.glyphs ELSE DOMAIN f1.encoding.map

\* the glyphs that save gets to, by their codes
WrittenGlyphs ==
    IF NativeSave THEN DOMAIN f1.glyphs
    ELSE {f1.encoding.map[k] : k \in DOMAIN f1.encoding.map} \cap DOMAIN f1.glyphs

\* the calls of tofile.write that ended a record
Records(out) == Cardinality({i \in 1..Len(out) : out[i] = <<OrdNewline>>})

SameGlyphs(a, b) ==
    /\ DOMAIN a.glyphs = DOMAIN b.glyphs
    /\ \A c \in DOMAIN a.glyphs :
           /\ a.glyphs[c].min_x = b.glyphs[c].min_x
           /\ a.glyphs[c].max_x = b.glyphs[c].max_x
           /\ a.glyphs[c].path = b.glyphs[c].path

CoordinatesOf(glyph) ==
    {glyph.min_x, glyph.max_x} \cup UNION {{p[1], p[2]} : p \in PointsOf(glyph)}

\* the pair that save would write as the two characters " R"
PenUpPair == <<OrdSpace - OrdR, 0>>

\* every coordinate is written as a character from " " to "~", and no pair
\* as the pen-up marker
Writable(glyph) ==
    /\ \A v \in CoordinatesOf(glyph) : v + OrdR >= OrdSpace /\ v + OrdR <= 126
    /\ <<glyph.min_x, glyph.max_x>> # PenUpPair
    /\ PenUpPair \notin PointsOf(glyph)

InFormat(g) ==
    \A c \in DOMAIN g.glyphs : c <= MaxCode /\ NrPoints(g.glyphs[c]) < PointLimit

RoundTrips(g) ==
    /\ InFormat(g)
    /\ \A c \in DOMAIN g.glyphs :
           /\ c >= 1 /\ c # Sentinel
           /\ Len(g.glyphs[c].path) >= 1
           /\ Writable(g.glyphs[c])

\* the fonts whose bounding box load finds to be of width and height 0
AllZero(g) == \A c \in DOMAIN g.glyphs : CoordinatesOf(g.glyphs[c]) = {0}

C8_Overflow ==
    pc # "start" =>
        /\ (\E c \in WrittenCodes : c > MaxCode) => ~saved.ok
        /\ (\E c \in WrittenGlyphs : NrPoints(f1.glyphs[c]) >= PointLimit) => ~saved.ok

\* save has failed on a font with a code above 99999 and a glyph of 1000 points
C8_Witness ==
    /\ pc = "saved"
    /\ ~saved.ok
    /\ \E c \in WrittenCodes : c > MaxCode
    /\ \E c \in WrittenGlyphs : NrPoints(f1.glyphs[c]) >= PointLimit

\* C9 as stated: save (native codes) completes and writes one record per
\* glyph for every font whose codes are all in 0..99999 and whose point
\* counts are all < 1000.
C9_OnlyOverflowFails ==
    (pc # "start" /\ NativeSave /\ InFormat(f1) /\ \A c \in DOMAIN f1.glyphs : c >= 0)
    => saved.ok /\ Records(tofile) = Cardinality(DOMAIN f1.glyphs)

\* C9 amended: save (native codes) completes and writes one record per glyph
\* for every font whose codes are all in 1..99999, whose point counts are
\* all < 1000 and whose coordinates v all have 0 <= v + 82 <= 0x10FFFF.
C9_SaveCompletes ==
    (/\ pc # "start" /\ NativeSave /\ InFormat(f1)
     /\ \A c \in DOMAIN f1.glyphs :
            c >= 1 /\ \A v \in CoordinatesOf(f1.glyphs[c]) : ChrOk(v + OrdR))
    => saved.ok /\ Records(tofile) = Cardinality(DOMAIN f1.glyphs)

\* save has written two records, one of them for a glyph of 999 points
C9_Witness ==
    /\ pc = "saved" /\ NativeSave /\ saved.ok
    /\ Records(tofile) = 2
    /\ \E c \in DOMAIN f1.glyphs : NrPoints(f1.glyphs[c]) = PointLimit - 1

\* C10 as stated: when save fails on a code or a point count that does not
\* fit its field, tofile has received nothing; and a load that fails returns
\* no font.
C10_NothingWritten ==
    /\ (pc # "start" /\ saved.err = "AssertionError") => tofile = <<>>
    /\ (pc = "reloaded" /\ ~result.ok) => result.val = NoFont

\* the font cut down to the codes (or, under use_encoding, keys) in keep
CutTo(g, keep) ==
    IF NativeSave
    THEN [g EXCEPT !.glyphs = [c \in DOMAIN g.glyphs \cap keep |-> g.glyphs[c]]]
    ELSE [g EXCEPT !.encoding.map = [k \in DOMAIN g.encoding.map \cap keep |-> g.encoding.map[k]]]

\* what tofile holds when save failed after n records, on codes[n + 1]
PartialOutput(codes, n) ==
    save(CutTo(f1, {codes[i] : i \in 1..n}), use_encoding).out
    \o (IF codes[n + 1] > 0 /\ codes[n + 1] <= MaxCode
        THEN <<FormatD(codes[n + 1], 5)>> ELSE <<>>)

\* C10 amended: when save fails on a code or a point count that does not fit
\* its field, tofile has received the full records of all smaller codes, in
\* order, and, when it is the point count that does not fit, the code field
\* of the failing glyph as well, and nothing else; and a load that fails
\* returns no font.
C10_PartialOutput ==
    /\ (pc # "start" /\ saved.err = "AssertionError")
       => /\ Records(tofile) < Cardinality(WrittenCodes)
          /\ tofile = PartialOutput(Sorted(WrittenCodes), Records(tofile))
    /\ (pc = "reloaded" /\ ~result.ok) => result.val = NoFont

\* save has failed on the point count of the second glyph, after the record
\* of the first
C10_Witness ==
    /\ pc = "saved"
    /\ saved.err = "AssertionError"
    /\ Records(tofile) = 1
    /\ Len(tofile) > 1
    /\ tofile[Len(tofile)] # <<OrdNewline>>

\* the calls of tofile.write that began a record, in order: the first call
\* and every call after one that ended a record
RecordStarts(out) == Sorted({i \in 1..Len(out) : i = 1 \/ out[i - 1] = <<OrdNewline>>})

\* the glyph that the j-th record is written for
GlyphOf(g, j) ==
    g.glyphs[IF NativeSave THEN Sorted(WrittenCodes)[j]
             ELSE g.encoding.map[Sorted(WrittenCodes)[j]]]

\* the records of out whose point-count field has been written
Counted(out) == {j \in 1..Len(RecordStarts(out)) : RecordStarts(out)[j] + 1 <= Len(out)}

\* the point-count field of the j-th record: the first three characters of
\* the call that follows the code field
PointCountField(out, j) == ParseInt(Strip(SubSeq(out[RecordStarts(out)[j] + 1], 1, 3))).val

\* C21 as stated: the point-count field of every record that save writes is
\* the sum of the lengths of the glyph's segments plus the number of its
\* segments, for a glyph of no segments too.
C21_PointCount ==
    pc # "start"
    => \A j \in Counted(tofile) :
           PointCountField(tofile, j)
           = SumLen(GlyphOf(f1, j).path) + Len(GlyphOf(f1, j).path)

\* C21 amended: the point-count field of every record that save writes is
\* the sum of the lengths of the glyph's segments plus the number of its
\* segments when the glyph has a segment, and 1 (the extents pair) when it
\* has none.
C21_PointCountOrOne ==
    pc # "start"
    => \A j \in Counted(tofile) :
           PointCountField(tofile, j)
           = SumLen(GlyphOf(f1, j).path) + Max2(Len(GlyphOf(f1, j).path), 1)

\* save has written the records of a glyph of no segments and of one of one
\* segment that holds one point
C21_Witness ==
    /\ pc = "saved" /\ saved.ok
    /\ Counted(tofile) = {1, 2}
    /\ \E i, j \in {1, 2} :
           /\ Len(GlyphOf(f1, i).path) = 0
           /\ PointCountField(tofile, i) = 1
           /\ Len(GlyphOf(f1, j).path) = 1
           /\ PointCountField(tofile, j) = 2

\* the code field of the j-th record
CodeOfRecord(out, j) == ParseInt(Strip(out[RecordStarts(out)[j]])).val

\* the call that ended the j-th record of a completed save
RecordEnd(out, j) ==
    IF j < Len(RecordStarts(out)) THEN RecordStarts(out)[j + 1] - 1 ELSE Len(out)

\* what the j-th record holds after its two number fields: the two
\* characters of the extents, and the pairs of characters that follow
Geometry(out, j) ==
    [extents |-> SubSeq(out[RecordStarts(out)[j] + 1], 4, 5),
     pairs |-> SubSeq(out, RecordStarts(out)[j] + 2, RecordEnd(out, j) - 1)]

\* the pairs of characters of a path: those of its points, with " R" between
\* one segment and the next
RECURSIVE PairsOf(_)
PairsOf(path) ==
    IF path = <<>> THEN <<>>
    ELSE (IF Len(path) = 1 THEN <<>>
          ELSE PairsOf(SubSeq(path, 1, Len(path) - 1)) \o << <<OrdSpace, OrdR>> >>)
         \o [i \in 1..Len(path[Len(path)]) |->
                <<path[Len(path)][i][1] + OrdR, path[Len(path)][i][2] + OrdR>>]

GeometryOf(glyph) ==
    [extents |-> <<glyph.min_x + OrdR, glyph.max_x + OrdR>>, pairs |-> PairsOf(glyph.path)]

\* C22: the code fields of the records that save writes are strictly
\* ascending.  A save that completes with use_encoding true on a font with
\* an encoding has written one record per key of the encoding, with the
\* extents and the path of glyphs[encoding[k]] under key k; with
\* use_encoding false, or on a font with no encoding, it has written one
\* record per glyph code, with the extents and the path of glyphs[c] under
\* code c.
C22_AscendingCodes ==
    pc # "start"
    => /\ \A i, j \in 1..Len(RecordStarts(tofile)) :
              i < j => CodeOfRecord(tofile, i) < CodeOfRecord(tofile, j)
       /\ saved.ok
          => /\ {CodeOfRecord(tofile, j) : j \in 1..Len(RecordStarts(tofile))}
                = (IF use_encoding /\ f1.encoding.some THEN DOMAIN f1.encoding.map
                   ELSE DOMAIN f1.glyphs)
             /\ \A j \in 1..Len(RecordStarts(tofile)) :
                    Geometry(tofile, j)
                    = GeometryOf(f1.glyphs[IF use_encoding /\ f1.encoding.some
                                           THEN f1.encoding.map[CodeOfRecord(tofile, j)]
                                           ELSE CodeOfRecord(tofile, j)])

\* save by encoding has written two records whose keys, in ascending order,
\* name two different glyphs in descending order of their codes
C22_Witness ==
    /\ pc = "saved" /\ saved.ok
    /\ use_encoding /\ f1.encoding.some
    /\ Len(RecordStarts(tofile)) = 2
    /\ f1.encoding.map[CodeOfRecord(tofile, 1)] > f1.encoding.map[CodeOfRecord(tofile, 2)]
    /\ Geometry(tofile, 1) # Geometry(tofile, 2)

(***************************************************************************)
(* Properties of the union                                                 *)
(***************************************************************************)
\* C2: when f1 | f2 returns, every code of f1.glyphs has in the result the
\* min_x, max_x and path it has in f1: no glyph of f2 is stored under a
\* code of f1.
C2_BasePreserved ==
    (pc = "merged" /\ result.ok)
    => \A c \in DOMAIN f1.glyphs :
           /\ c \in DOMAIN result.val.glyphs
           /\ result.val.glyphs[c].min_x = f1.glyphs[c].min_x
           /\ result.val.glyphs[c].max_x = f1.glyphs[c].max_x
           /\ result.val.glyphs[c].path = f1.glyphs[c].path

\* C3: f1 | f2 fails, and returns no font, when exactly one of f1 and f2
\* has an encoding; when both have one or neither has, the union does not
\* fail on this check.
C3_MixedEncodingFails ==
    pc = "merged" =>
        /\ (f1.encoding.some # f2.encoding.some)
           => ~result.ok /\ result.err = "AssertionError" /\ result.val = NoFont
        /\ (f1.encoding.some = f2.encoding.some) => result.err # "AssertionError"

\* the union of a font without encoding and one with an encoding has failed
C3_Witness ==
    /\ pc = "merged"
    /\ ~f1.encoding.some /\ f2.encoding.some
    /\ ~result.ok

\* every value of the encoding is 0 or a code of the font
ValidEncoding(g) ==
    g.encoding.some =>
        \A k \in DOMAIN g.encoding.map :
            g.encoding.map[k] = 0 \/ g.encoding.map[k] \in DOMAIN g.glyphs

\* C4: when every value of f1.encoding is 0 or a code of f1.glyphs, and
\* likewise for f2, every value of the encoding of f1 | f2 is 0 or a code
\* of its glyphs, in the first union and in every later one.
C4_EncodingValid ==
    (pc = "merged" /\ result.ok /\ ValidEncoding(f1) /\ ValidEncoding(f2))
    => ValidEncoding(result.val)

Merged2 == pc = "merged" /\ result.ok

BothEncoded == f1.encoding.some /\ f2.encoding.some
NoneEncoded == ~f1.encoding.some /\ ~f2.encoding.some

\* the same extents and the same path
SameShape(g, h) == g.min_x = h.min_x /\ g.max_x = h.max_x /\ g.path = h.path

\* C16: when f1 and f2 both have an encoding, the encoding of f1 | f2 has
\* the keys of both, and under every key of f1.encoding the value that
\* f1.encoding has.
C16_BaseEncodingWins ==
    (Merged2 /\ BothEncoded)
    => /\ result.val.encoding.some
       /\ DOMAIN result.val.encoding.map
          = DOMAIN f1.encoding.map \cup DOMAIN f2.encoding.map
       /\ \A k \in DOMAIN f1.encoding.map :
              result.val.encoding.map[k] = f1.encoding.map[k]

\* a union where f1 and f2 disagree on a key they both have, and f2 has a
\* key that f1 has not
C16_Witness ==
    /\ Merged2 /\ BothEncoded
    /\ \E k \in DOMAIN f1.encoding.map \cap DOMAIN f2.encoding.map :
           f1.encoding.map[k] # f2.encoding.map[k]
    /\ DOMAIN f2.encoding.map \ DOMAIN f1.encoding.map # {}

\* the orders in which a dict with the keys S may hold them
KeyOrders(S) ==
    {o \in [1..Cardinality(S) -> S] : \A i, j \in 1..Cardinality(S) : o[i] = o[j] => i = j}

\* two outcomes of the union with the same glyphs and the same encoding
SameUnion(r, q) ==
    /\ r.ok = q.ok
    /\ DOMAIN r.val.glyphs = DOMAIN q.val.glyphs
    /\ \A c \in DOMAIN r.val.glyphs : SameShape(r.val.glyphs[c], q.val.glyphs[c])
    /\ r.val.encoding = q.val.encoding

\* C18: the union of f1 with any font that has the glyph mapping and the
\* encoding of f2 gives the codes, the glyphs and the encoding of f1 | f2.
C18_Deterministic ==
    pc = "merged" =>
        \A o \in KeyOrders(DOMAIN f2.glyphs) :
            SameUnion(or(f1, [f2 EXCEPT !.order = o], result.val.id), result)

\* C19: without encodings, with m the largest code of f1 and e_1 < ... < e_n
\* the codes of f2, f1 | f2 holds f2's glyph e_i under m + i, has
\* |f1.glyphs| + n glyphs, and its codes above m are m+1 .. m+n.
C19_SequentialCodes ==
    (Merged2 /\ NoneEncoded)
    => /\ \A i \in 1..Cardinality(DOMAIN f2.glyphs) :
              /\ SetMax(DOMAIN f1.glyphs) + i \in DOMAIN result.val.glyphs
              /\ SameShape(result.val.glyphs[SetMax(DOMAIN f1.glyphs) + i],
                           f2.glyphs[Sorted(DOMAIN f2.glyphs)[i]])
       /\ Cardinality(DOMAIN result.val.glyphs)
          = Cardinality(DOMAIN f1.glyphs) + Cardinality(DOMAIN f2.glyphs)
       /\ {c \in DOMAIN result.val.glyphs : c > SetMax(DOMAIN f1.glyphs)}
          = {SetMax(DOMAIN f1.glyphs) + i : i \in 1..Cardinality(DOMAIN f2.glyphs)}

\* the keys of f2.encoding that f1.encoding has not and that name f2's code c
NewKeysOf(c) ==
    {k \in DOMAIN f2.encoding.map \ DOMAIN f1.encoding.map : f2.encoding.map[k] = c}

\* the codes above those of f1 under which the result holds f2's glyph c
FreshCodesOf(c) ==
    {x \in DOMAIN result.val.glyphs :
        x > SetMax(DOMAIN f1.glyphs) /\ SameShape(result.val.glyphs[x], f2.glyphs[c])}

\* C20: with encodings, every code c of f2 that f1 uses too gets exactly one
\* fresh code above the codes of f1; the result holds f2's glyph c under it,
\* and every key of f2.encoding that names c and that f1.encoding has not
\* maps to it.
C20_RemapReused ==
    (Merged2 /\ BothEncoded)
    => \A c \in DOMAIN f2.glyphs \cap DOMAIN f1.glyphs :
           /\ Cardinality(FreshCodesOf(c)) = 1
           /\ \A k \in NewKeysOf(c) : result.val.encoding.map[k] \in FreshCodesOf(c)

\* the heap holds of the object v what v held when the operation began
Intact(v) == v.id \in DOMAIN heap.objs /\ Deref(heap, v.id) = v

\* the dict objects that the slots of the object id refer to
DictsOf(id) == {heap.objs[id].glyphs, heap.objs[id].encoding} \ {0}

\* C17: after f1 | f2, whether it returned or raised, and after save of the
\* merged font, the glyphs, encoding, min, max, baseline_y and scale of every
\* argument are what they were before; and the object that the union returns
\* is a new one whose glyphs and encoding dicts are not dict objects of f1 or
\* of f2.
C17_ArgumentsNotMutated ==
    /\ pc \in {"merged", "saved"} => Intact(f1) /\ Intact(f2)
    /\ (pc \in {"merged", "saved"} /\ result.ok)
        => /\ Intact(result.val)
           /\ result.val.id \notin {f1.id, f2.id}
           /\ DictsOf(result.val.id) \cap (DictsOf(f1.id) \cup DictsOf(f2.id)) = {}

\* a union with encodings that added keys and glyphs to those of f1, saved
\* by encoding
C17_Witness ==
    /\ pc = "saved"
    /\ saved.ok
    /\ use_encoding
    /\ result.val.encoding.some
    /\ DOMAIN result.val.encoding.map # DOMAIN f1.encoding.map
    /\ Len(result.val.order) > Len(f1.order)

\* C26: every glyph of a font that load returned (f1, f2) or that a union
\* returned (result) has that font as its parent, the one whose scale and
\* baseline_y draw uses.
C26_GlyphOwnership ==
    /\ \A c \in DOMAIN f1.glyphs : f1.glyphs[c].parent = f1.id
    /\ \A c \in DOMAIN f2.glyphs : f2.glyphs[c].parent = f2.id
    /\ (pc = "merged" /\ result.ok)
       => \A c \in DOMAIN result.val.glyphs : result.val.glyphs[c].parent = result.val.id

\* the codes of the result under which a glyph of the shape of glyph is stored
StoredAs(glyph) ==
    {x \in DOMAIN result.val.glyphs : SameShape(result.val.glyphs[x], glyph)}

\* C27: with encodings, the glyphs of f2 are stored in the result under
\* codes that differ from one another and from the codes of f1, so that the
\* result has as many glyphs as f1 and f2 together.
C27_NoGlyphLost ==
    (Merged2 /\ BothEncoded)
    => /\ Cardinality(DOMAIN result.val.glyphs)
          = Cardinality(DOMAIN f1.glyphs) + Cardinality(DOMAIN f2.glyphs)
       /\ \A c \in DOMAIN f2.glyphs : StoredAs(f2.glyphs[c]) \ DOMAIN f1.glyphs # {}
       /\ \A c \in DOMAIN f1.glyphs : c \in StoredAs(f1.glyphs[c])

(***************************************************************************)
(* Properties of make_enc                                                  *)
(***************************************************************************)
Made == pc = "made" /\ enc.ok

\* the keys that the redirects of the rule delete, and those they assign to
Removed(r) ==
    UNION {{r.redirects[n].v[i][1] : i \in 1..Len(r.redirects[n].v)} :
              n \in {m \in 1..3 : r.redirects[m].some}}
Targets(r) ==
    UNION {{r.redirects[n].v[i][2].v :
               i \in {j \in 1..Len(r.redirects[n].v) : r.redirects[n].v[j][2].some}} :
              n \in {m \in 1..3 : r.redirects[m].some}}

NoRedirects(r) == \A n \in 1..3 : ~r.redirects[n].some

\* the table holds under every key of extra that is not in gone the code
\* that extra gives
Overrides(extra, gone) ==
    extra.some =>
        \A k \in DOMAIN extra.v \ gone : k \in DOMAIN enc.enc /\ enc.enc[k] = extra.v[k]

\* C15 as stated: the table that make_enc builds maps every character of
\* the rule's extra that no redirect removes to the code extra gives, whatever
\* the preset and the symbol, letter, space and digit steps assign; with the
\* preset "ascii" and extra "A" -> 900 it maps 65 to 900.
C15_ExtraWins ==
    Made =>
        /\ Overrides(rule.extra, Removed(rule))
        /\ (rule.preset = "ascii" /\ rule.extra = Some(65 :> 900) /\ NoRedirects(rule))
           => enc.enc[65] = 900

\* the extra overrides in effect: the presets "rowmans" and "greekc" put
\* their own in the place of the rule's
ExtraInEffect(r) == IF r.preset \in {"rowmans", "greekc"} THEN Preset(r).extra ELSE r.extra

\* C15 amended: the table that make_enc builds maps every character of the
\* extra overrides in effect (the rule's, or with the presets "rowmans" and
\* "greekc" the preset's own, which replace the rule's) that no redirect
\* removes and no redirect assigns to, to the code extra gives, whatever
\* the preset and the symbol, letter, space and digit steps assign; with the
\* preset "ascii" and extra "A" -> 900 it maps 65 to 900.
C15_ExtraWinsUnlessRedirected ==
    Made =>
        /\ Overrides(ExtraInEffect(rule), Removed(rule) \cup Targets(rule))
        /\ (rule.preset = "ascii" /\ rule.extra = Some(65 :> 900) /\ NoRedirects(rule))
           => enc.enc[65] = 900

\* a table where extra has replaced the codes of the symbol, space and digit
\* steps for "#", " ", "0" and ".", and a redirect has moved "A"
C15_Witness ==
    /\ Made
    /\ rule.preset = "none"
    /\ rule.extra.some /\ DOMAIN rule.extra.v = {35, 32, 48, 46}
    /\ rule.redirects[1] = Some(<< <<65, Some(66)>> >>)
    /\ enc.enc[35] = 901 /\ enc.enc[48] = 903

\* the table as it is before pass n of the redirects (n = 4: after the last)
RECURSIVE TableBefore(_, _)
TableBefore(r, n) ==
    IF n = 1 THEN WithExtra(BaseTable(Preset(r)), Preset(r))
    ELSE Redirect(TableBefore(r, n - 1), r.redirects[n - 1])

\* the keys that the items of one redirect take away
Olds(items) == {items[i][1] : i \in 1..Len(items)}

\* every item (old, new) with a new has left under new the code that was
\* under old
Moved(before, after, items) ==
    \A i \in 1..Len(items) :
        items[i][2].some
        => /\ items[i][2].v \in DOMAIN after.enc
           /\ after.enc[items[i][2].v] = before.enc[items[i][1]]

Gone(after, items) == Olds(items) \cap DOMAIN after.enc = {}

\* no new key of the items is an old key of theirs or the new key of another
\* item
Apart(items) ==
    \A i \in 1..Len(items) :
        items[i][2].some
        => /\ items[i][2].v \notin Olds(items)
           /\ \A j \in 1..Len(items) :
                  (j # i /\ items[j][2].some) => items[j][2].v # items[i][2].v

\* C23 as stated: after each redirect pass of a make_enc that returns, for
\* every item (old, new) of the pass with a new, the table maps new to the
\* code that old mapped to before the pass, and no old key of the pass is in
\* the table; for every redirect, also one where a new key is an old key of
\* the same pass.
C23_RedirectMoves ==
    Made => \A n \in 1..3 :
                rule.redirects[n].some
                => /\ Moved(TableBefore(rule, n), TableBefore(rule, n + 1),
                            rule.redirects[n].v)
                   /\ Gone(TableBefore(rule, n + 1), rule.redirects[n].v)

\* C23 amended: after each redirect pass of a make_enc that returns, no old
\* key of the pass is in the table, a new key that is also an old key of the
\* pass included; and when no new key of the pass is an old key of the pass
\* or the new key of two redirects, the table maps, for every item
\* (old, new) with a new, new to the code that old mapped to before the
\* pass.  The table after the last pass is the one make_enc returns.
C23_RedirectMovesApart ==
    Made => /\ enc = TableBefore(rule, 4)
            /\ \A n \in 1..3 :
                   rule.redirects[n].some
                   => /\ Gone(TableBefore(rule, n + 1), rule.redirects[n].v)
                      /\ Apart(rule.redirects[n].v)
                         => Moved(TableBefore(rule, n), TableBefore(rule, n + 1),
                                  rule.redirects[n].v)

\* a first pass of two redirects, one to a new key and one to nothing, and a
\* second pass have run
C23_Witness ==
    /\ Made
    /\ rule.redirects[1].some /\ rule.redirects[2].some
    /\ Len(rule.redirects[1].v) = 2
    /\ Apart(rule.redirects[1].v)
    /\ \E i, j \in 1..2 :
           /\ rule.redirects[1].v[i][2].some
           /\ rule.redirects[1].v[i][2].v \in DOMAIN enc.enc
           /\ ~rule.redirects[1].v[j][2].some

(***************************************************************************)
(* Properties of text_to_glyphs                                            *)
(***************************************************************************)
\* the glyph code of a character: what the encoding, or without one the glyph
\* codes, have for it, and 0 otherwise
Lookup(ch) ==
    IF use_encoding
    THEN (IF ch \in DOMAIN f1.encoding.map THEN f1.encoding.map[ch] ELSE 0)
    ELSE (IF ch \in DOMAIN f1.glyphs THEN ch ELSE 0)

\* the sum of max_x - min_x over the glyphs of the first n characters
RECURSIVE Advance(_)
Advance(n) ==
    IF n = 0 THEN 0
    ELSE Advance(n - 1) + f1.glyphs[Lookup(text[n])].max_x - f1.glyphs[Lookup(text[n])].min_x

\* C24: text_to_glyphs returns, for every text, one entry per character,
\* with the glyph code that the lookup gives for the character (0 when it
\* has none) and, as its horizontal position before scaling, the sum of
\* max_x - min_x over the glyphs of the characters before it.
C24_KerningPositions ==
    pc = "shaped"
    => /\ glyphs_list.ok
       /\ Len(glyphs_list.list) = Len(text)
       /\ \A i \in 1..Len(text) :
              /\ glyphs_list.list[i].index = Lookup(text[i])
              /\ glyphs_list.list[i].pos.num = Advance(i - 1)

====
